---- MODULE Spec2Model ----
(***************************************************************************)
(* Layout engine of the vocabulary quiz generator (streamlit_app.py):      *)
(* wrap_text_by_width, create_test_pdf, create_answer_pdf and the caller   *)
(* that runs the two passes one after the other on the same word_pairs.    *)
(*                                                                         *)
(* Lengths are integers in tenths of a millimetre (mm == 10), so that      *)
(* char_size_pt * 1.1 (2.2 mm) is exact.  Texts are sequences of           *)
(* one-character strings.                                                  *)
(***************************************************************************)
EXTENDS Integers, Sequences, FiniteSets, TLC

VARIABLES
    word_pairs,      \* argument of both passes: sequence of [eng, kor, is_kor_blank]
    num_questions,   \* argument of both passes
    mode,            \* "test" = create_test_pdf is running, "answer" = create_answer_pdf
    pc,              \* position inside the running pass
    idx,             \* index of the next item to place (0-based, as in the code)
    page_no,         \* current page number
    y_left,          \* left column cursor
    y_right,         \* right column cursor
    out,             \* canvas commands issued by the running pass, in order
    test_buf,        \* what create_test_pdf returned (its commands and page count)
    text,            \* wrap_text_by_width: argument text
    max_width_pt,    \* wrap_text_by_width: argument max_width_pt
    wrapped          \* wrap_text_by_width: [called, lines]

vars == << word_pairs, num_questions, mode, pc, idx, page_no, y_left, y_right,
           out, test_buf, text, max_width_pt, wrapped >>

layout_vars == << word_pairs, num_questions, mode, pc, idx, page_no, y_left,
                  y_right, out, test_buf >>

wrap_vars == << text, max_width_pt, wrapped >>

-----------------------------------------------------------------------------
(* Bounds of the model *)

MaxItems == 6

MaxPages == 4

MaxTextLen == 4

MaxMixed == 3

-----------------------------------------------------------------------------
(* Constants of the program *)

mm == 10

NUM_X1_MM == 24

UNDER_X1_MM == 62

UNDER_LEN_MM == 37

NUM_X2_MM == 111

UNDER_X2_MM == 152

TOP_OFFSET_MM == 62

BOTTOM_RESERVED_MM == 24

LINE_HEIGHT_EN_MM == 4

LINE_HEIGHT_KO_GAP_MM == 4

CHAR_SIZE_MM == 2

A4_HEIGHT_MM == 297

page_h_pt == A4_HEIGHT_MM * mm

num_x1 == NUM_X1_MM * mm

under_x1 == UNDER_X1_MM * mm

under_len == UNDER_LEN_MM * mm

num_x2 == NUM_X2_MM * mm

under_x2 == UNDER_X2_MM * mm

top_offset == TOP_OFFSET_MM * mm

bottom_reserved == BOTTOM_RESERVED_MM * mm

char_size_pt == CHAR_SIZE_MM * mm

line_height_en == LINE_HEIGHT_EN_MM * mm

ko_gap == LINE_HEIGHT_KO_GAP_MM * mm

text_x1 == num_x1 + 6 * mm

text_x2 == num_x2 + 6 * mm

text_max_w1 == (under_x1 - 2 * mm) - text_x1

text_max_w2 == (under_x2 - 2 * mm) - text_x2

answer_max_w == under_len - 2 * mm

per_line_h == (char_size_pt * 11) \div 10

y_col_start == page_h_pt - top_offset

-----------------------------------------------------------------------------
(* Text measuring and wrapping *)

Max(a, b) == IF a >= b THEN a ELSE b

Min(a, b) == IF a <= b THEN a ELSE b

\* Python's str.strip() removes every kind of whitespace, str.split(" ") only
\* splits at the space character.
IsSpace(ch) == ch \in {" ", "\t"}

\* Advance of one glyph at char_size_pt, as pdfmetrics.stringWidth adds them up.
\* "a" is a 1 em glyph (2 mm); "M" and "W" stand for unbreakable runs that are
\* wider than half a column, so that tall items need few characters.
CharW(ch) ==
    CASE ch = " "  -> 10
      [] ch = "\t" -> 10
      [] ch = "a"  -> 20
      [] ch = "M"  -> 160
      [] ch = "W"  -> 170
      [] OTHER     -> 20

\* the sum of the glyph advances of s (summed by halves)
RECURSIVE stringWidth(_)
stringWidth(s) ==
    IF Len(s) = 0 THEN 0
    ELSE IF Len(s) = 1 THEN CharW(s[1])
    ELSE LET h == Len(s) \div 2
         IN  stringWidth(SubSeq(s, 1, h)) + stringWidth(SubSeq(s, h + 1, Len(s)))

\* str.strip(): s from its first to its last non-whitespace character
strip(s) ==
    LET n == Len(s)
    IN  IF \A i \in 1..n : IsSpace(s[i]) THEN << >>
        ELSE SubSeq(s,
                    CHOOSE i \in 1..n :
                        ~IsSpace(s[i]) /\ \A j \in 1..(i - 1) : IsSpace(s[j]),
                    CHOOSE i \in 1..n :
                        ~IsSpace(s[i]) /\ \A j \in (i + 1)..n : IsSpace(s[j]))

\* text.split(" "): the pieces between single spaces, empty pieces included
split(s) ==
    LET sp     == {i \in 1..Len(s) : s[i] = " "}
        n      == Cardinality(sp)
        pos(k) == IF k = 0 THEN 0
                  ELSE IF k = n + 1 THEN Len(s) + 1
                  ELSE CHOOSE p \in sp : Cardinality({q \in sp : q < p}) = k - 1
    IN  [k \in 1..(n + 1) |-> SubSeq(s, pos(k - 1) + 1, pos(k) - 1)]

\* lines 72-78: one iteration of the character loop, on the record (lines, sub)
char_step(ch, st, maxw) ==
    IF stringWidth(Append(st.sub, ch)) <= maxw
    THEN [lines |-> st.lines, sub |-> Append(st.sub, ch)]
    ELSE [lines |-> IF st.sub # << >> THEN Append(st.lines, st.sub) ELSE st.lines,
          sub   |-> << ch >>]

\* for ch in w[lo..hi]: st = char_step(ch, st), in order (the range is halved so
\* that the evaluation stays shallow on long words)
RECURSIVE char_loop(_, _, _, _, _)
char_loop(w, lo, hi, st, maxw) ==
    IF lo > hi THEN st
    ELSE IF lo = hi THEN char_step(w[lo], st, maxw)
    ELSE LET mid   == (lo + hi) \div 2
             first == char_loop(w, lo, mid, st, maxw)
         IN  IF DOMAIN first # {}   \* the first half is evaluated first
             THEN char_loop(w, mid + 1, hi, first, maxw)
             ELSE first

\* lines 71-79: split by characters, after the lines flushed so far
split_chars(w, lines, maxw) ==
    char_loop(w, 1, Len(w), [lines |-> lines, sub |-> << >>], maxw)

\* mutant of word_fits: the word is never split by characters
word_fits_always(w, maxw) == TRUE

\* line 67: does the word that did not fit after `cur` fit on a line of its own
word_fits(w, maxw) == stringWidth(w) <= maxw

\* mutant of wrap_word: the line in progress is not flushed before a word that
\* does not fit after it
wrap_word_noflush(w, st, maxw) ==
    LET cur       == st.cur
        candidate == IF cur # << >> THEN strip(cur \o << " " >> \o w) ELSE w
    IN  IF stringWidth(candidate) <= maxw
        THEN [lines |-> st.lines, cur |-> candidate]
        ELSE IF word_fits(w, maxw)
             THEN [lines |-> st.lines, cur |-> w]
             ELSE LET r == split_chars(w, st.lines, maxw)
                  IN  [lines |-> r.lines, cur |-> r.sub]

\* lines 59-79: one iteration of the word loop, on the record (lines, cur)
wrap_word(w, st, maxw) ==
    LET cur       == st.cur
        candidate == IF cur # << >> THEN strip(cur \o << " " >> \o w) ELSE w
        flushed   == IF cur # << >> THEN Append(st.lines, cur) ELSE st.lines
    IN  IF stringWidth(candidate) <= maxw
        THEN [lines |-> st.lines, cur |-> candidate]
        ELSE IF word_fits(w, maxw)
             THEN [lines |-> flushed, cur |-> w]
             ELSE LET r == split_chars(w, flushed, maxw)
                  IN  [lines |-> r.lines, cur |-> r.sub]

\* for w in words[lo..hi]: st = wrap_word(w, st), in order
RECURSIVE word_loop(_, _, _, _, _)
word_loop(words, lo, hi, st, maxw) ==
    IF lo > hi THEN st
    ELSE IF lo = hi THEN wrap_word(words[lo], st, maxw)
    ELSE LET mid   == (lo + hi) \div 2
             first == word_loop(words, lo, mid, st, maxw)
         IN  IF DOMAIN first # {}   \* the first half is evaluated first
             THEN word_loop(words, mid + 1, hi, first, maxw)
             ELSE first

\* lines 55-82
wrap_words(words, maxw) ==
    LET st == word_loop(words, 1, Len(words), [lines |-> << >>, cur |-> << >>], maxw)
    IN  IF st.cur # << >> THEN Append(st.lines, st.cur) ELSE st.lines

\* the value None, which is not a text (no text holds the element "None")
None == << "None" >>

wrap_text_by_width(t, maxw) ==
    IF t = None THEN << >>
    ELSE IF strip(t) = << >> THEN << >>
    ELSE wrap_words(split(t), maxw)

-----------------------------------------------------------------------------
(* Inputs of the model *)

RECURSIVE SeqsUpTo(_, _)
SeqsUpTo(S, n) ==
    IF n = 0 THEN { << >> }
    ELSE LET shorter == SeqsUpTo(S, n - 1)
         IN  shorter \cup { Append(s, x) : s \in shorter, x \in S }

Rep(ch, n) == [i \in 1..n |-> ch]

WrapAlphabet == {" ", "\t", "a", "M"}

WrapTexts == SeqsUpTo(WrapAlphabet, MaxTextLen) \cup {None}

WrapWidths == {15, 20, 50, 170, 300, 330}

-----------------------------------------------------------------------------
(* A call of wrap_text_by_width on its own *)

WrapInit ==
    /\ text \in WrapTexts
    /\ max_width_pt \in WrapWidths
    /\ wrapped = [called |-> FALSE, lines |-> << >>]
    /\ word_pairs = << >>
    /\ num_questions = 0
    /\ mode = "idle"
    /\ pc = "idle"
    /\ idx = 0
    /\ page_no = 1
    /\ y_left = y_col_start
    /\ y_right = y_col_start
    /\ out = << >>
    /\ test_buf = [out |-> << >>, pages |-> 0]

WrapCall ==
    /\ mode = "idle"
    /\ ~wrapped.called
    /\ wrapped' = [called |-> TRUE, lines |-> wrap_text_by_width(text, max_width_pt)]
    /\ UNCHANGED << text, max_width_pt >>
    /\ UNCHANGED layout_vars

WrapNext == WrapCall

WrapSpec == WrapInit /\ [][WrapNext]_vars

-----------------------------------------------------------------------------
(* The items the passes are run on *)

\* one-line English shown, Korean answer of two answer lines
ItemShort == [eng |-> << "a" >>, kor |-> Rep("W", 3), is_kor_blank |-> TRUE]

\* English shown, 46 lines in either column: two such items fill a column
ItemTallShown == [eng |-> Rep("W", 46), kor |-> << "a" >>, is_kor_blank |-> TRUE]

\* Korean shown, 46 lines in either column
ItemTallHidden == [eng |-> << "a" >>, kor |-> Rep("W", 46), is_kor_blank |-> FALSE]

\* English shown, 95 lines: more than an empty column holds
ItemOversized == [eng |-> Rep("W", 95), kor |-> << "a" >>, is_kor_blank |-> TRUE]

\* whitespace-only English shown
ItemBlank == [eng |-> << " " >>, kor |-> Rep("M", 94), is_kor_blank |-> TRUE]

\* Korean shown, 94 lines in the left column and 47 in the wider right column:
\* one such item fills a column
ItemUneven == [eng |-> << " " >>, kor |-> Rep("M", 94), is_kor_blank |-> FALSE]

\* English shown, 47 lines in either column: one such item fills a column
ItemFull == [eng |-> Rep("W", 47), kor |-> << "a" >>, is_kor_blank |-> TRUE]

\* empty English shown
ItemEmpty == [eng |-> << >>, kor |-> << "a" >>, is_kor_blank |-> TRUE]

CoreItems == {ItemTallShown, ItemTallHidden}

AllItems == CoreItems \cup {ItemShort, ItemOversized, ItemBlank, ItemUneven}

KnownItems == AllItems \cup {ItemFull, ItemEmpty}

\* long sequences of the tall items, shorter sequences of all items, and
\* sequences of one item repeated
WordPairLists ==
    SeqsUpTo(CoreItems, MaxItems) \cup SeqsUpTo(AllItems, MaxMixed)
        \cup SeqsUpTo({ItemFull}, MaxMixed) \cup SeqsUpTo({ItemShort}, MaxMixed + 1)
        \cup SeqsUpTo({ItemEmpty, ItemBlank}, MaxMixed)

\* 2 is the least count the form accepts
NumQuestions == {0, 2, MaxItems - 1, MaxItems}

-----------------------------------------------------------------------------
(* create_test_pdf and create_answer_pdf *)

total == Min(num_questions, Len(word_pairs))

\* word_pairs[idx], idx counted from 0
item_at(i) == word_pairs[i + 1]

shown_text(it) == IF it.is_kor_blank THEN it.eng ELSE it.kor

shown_field(it) == IF it.is_kor_blank THEN "eng" ELSE "kor"

answer_text(it) == IF it.is_kor_blank THEN it.kor ELSE it.eng

\* mutant of answer_field: the answer is taken from the shown side
answer_field_shown(it) == IF it.is_kor_blank THEN "eng" ELSE "kor"

answer_field(it) == IF it.is_kor_blank THEN "kor" ELSE "eng"

text_max_w(col) == IF col = "left" THEN text_max_w1 ELSE text_max_w2

\* wrap_text_by_width(shown_text, FONT_NAME, char_size_pt, text_max_w) of every
\* item and column, and wrap_text_by_width(answer_text, ..., under_len - 2*mm) of
\* every item: the calls the passes make, evaluated once per item
WrappedShown ==
    [it \in KnownItems |->
        [col \in {"left", "right"} |->
            wrap_text_by_width(shown_text(it), text_max_w(col))]]

WrappedAnswer ==
    [it \in KnownItems |->
        wrap_text_by_width(answer_text(it), answer_max_w)]

\* mutant of item_lines: `if not lines: lines = [""]` is left out
item_lines_raw(it, col) == WrappedShown[it][col]

\* lines = wrap_text_by_width(shown_text, ...); if not lines: lines = [""]
item_lines(it, col) ==
    LET lines == WrappedShown[it][col]
    IN  IF lines = << >> THEN << << >> >> ELSE lines

answer_lines(it) == WrappedAnswer[it]

\* mutant of block_h: the answer pass sizes the block for the answer lines too
block_h_with_answer(m, it, lines) ==
    IF m = "answer"
    THEN Max(Len(lines), Len(answer_lines(it))) * per_line_h
    ELSE Len(lines) * per_line_h

\* m is the pass ("test" or "answer"): both passes hold the same code
block_h(m, it, lines) == Len(lines) * per_line_h

gap_after(it) == IF it.is_kor_blank THEN line_height_en ELSE ko_gap

\* mutant of needed_space: the gap after the block is left out
needed_space_no_gap(m, it, lines) == block_h(m, it, lines)

needed_space(m, it, lines) == block_h(m, it, lines) + gap_after(it)

\* mutant of fits: one more line is kept free above the footer band
fits_with_margin(y, need) == ~((y - need) < bottom_reserved + per_line_h)

\* mutant of fits: the column is filled down to the bottom of the page
fits_to_page_bottom(y, need) == ~((y - need) < 0)

\* the negation of the test that leaves a column loop
fits(y, need) == ~((y - need) < bottom_reserved)

page_count_text(p) == << "Page ", p >>

\* mutant of item_label: the label is the 0-based index
item_label_zero(i) == i

\* the idx + 1 of f"{idx+1}."
item_label(i) == i + 1

\* mutant of draw_item: the underline is drawn inside the loop over the lines
draw_item_underline_per_line(m, it, i, col, y, p, lines) ==
    << [op |-> "number", idx |-> i, label |-> i + 1, col |-> col,
        page |-> p, y |-> y],
       [op |-> "text", idx |-> i, field |-> shown_field(it), col |-> col,
        page |-> p, y |-> y, n |-> Len(lines)] >>
    \o [li \in 1..Len(lines) |->
           [op |-> "underline", idx |-> i, col |-> col, page |-> p, y |-> y - 1]]
    \o (IF m = "answer"
        THEN << [op |-> "answer", idx |-> i, field |-> answer_field(it),
                 col |-> col, page |-> p, y |-> y, n |-> Len(answer_lines(it))] >>
        ELSE << >>)

\* the canvas calls that place one item at cursor y of column col; the loop
\* that draws the wrapped lines is one command that holds their number n
draw_item(m, it, i, col, y, p, lines) ==
    << [op |-> "number", idx |-> i, label |-> item_label(i), col |-> col,
        page |-> p, y |-> y],
       [op |-> "text", idx |-> i, field |-> shown_field(it), col |-> col,
        page |-> p, y |-> y, n |-> Len(lines)],
       [op |-> "underline", idx |-> i, col |-> col, page |-> p, y |-> y - 1] >>
    \o (IF m = "answer"
        THEN << [op |-> "answer", idx |-> i, field |-> answer_field(it),
                 col |-> col, page |-> p, y |-> y, n |-> Len(answer_lines(it))] >>
        ELSE << >>)

draw_header(p) == << [op |-> "header", page |-> p] >>

draw_footer(p) == << [op |-> "footer", page |-> p, text |-> page_count_text(p)] >>

\* mutant of end_page: the footer is drawn at page breaks only
end_page_at_breaks_only(p, more) ==
    IF more THEN draw_footer(p) \o << [op |-> "showPage"] >> ELSE << >>

\* lines 247-262: the footer of page p, then c.showPage() when items are left
end_page(p, more) ==
    draw_footer(p) \o (IF more THEN << [op |-> "showPage"] >> ELSE << >>)

\* mutant of next_page_no: page_no -= 1
next_page_no_down(p) == p - 1

\* page_no += 1
next_page_no(p) == p + 1

\* The page number on which a pass over the first n items of word_pairs returns,
\* from the point where item i is next, the page is p, the cursors are yl and yr
\* and the column loop `col` is running; ends is FALSE when the pass never
\* returns (an item does not fit on an empty page).
RECURSIVE pages_from(_, _, _, _, _, _)
pages_from(n, i, p, yl, yr, col) ==
    IF ~(i < n) THEN [ends |-> TRUE, pages |-> p]
    ELSE LET it   == item_at(i)
             need == needed_space("test", it, item_lines(it, col))
         IN  IF col = "left"
             THEN IF fits(yl, need)
                  THEN pages_from(n, i + 1, p, yl - need, yr, "left")
                  ELSE pages_from(n, i, p, yl, yr, "right")
             ELSE IF fits(yr, need)
                  THEN pages_from(n, i + 1, p, yl, yr - need, "right")
                  ELSE IF yl = y_col_start /\ yr = y_col_start
                       THEN [ends |-> FALSE, pages |-> p]
                       ELSE pages_from(n, i, next_page_no(p), y_col_start,
                                       y_col_start, "left")

\* the page count of the document made of the first n items of word_pairs
page_count(n) == pages_from(n, 0, 1, y_col_start, y_col_start, "left")

Init ==
    /\ word_pairs \in WordPairLists
    /\ num_questions \in NumQuestions
    /\ mode = "test"
    /\ pc = "while"
    /\ idx = 0
    /\ page_no = 1
    /\ y_left = y_col_start
    /\ y_right = y_col_start
    /\ out = << >>
    /\ test_buf = [out |-> << >>, pages |-> 0]
    /\ text = << >>
    /\ max_width_pt = 0
    /\ wrapped = [called |-> FALSE, lines |-> << >>]

running == mode \in {"test", "answer"}

\* mutant of PageLoop: the cursors are not set again on a new page
PageLoop_keeps_cursors ==
    /\ running /\ pc = "while"
    /\ idx < total
    /\ out' = out \o (IF page_no = 1 THEN draw_header(page_no) ELSE << >>)
    /\ y_left' = (IF page_no = 1 THEN y_col_start ELSE y_left)
    /\ y_right' = (IF page_no = 1 THEN y_col_start ELSE y_right)
    /\ pc' = "left"
    /\ UNCHANGED << word_pairs, num_questions, mode, idx, page_no, test_buf >>
    /\ UNCHANGED wrap_vars

\* top of the page loop with items left: header on page 1, fresh cursors
PageLoop ==
    /\ running /\ pc = "while"
    /\ idx < total
    /\ out' = out \o (IF page_no = 1 THEN draw_header(page_no) ELSE << >>)
    /\ y_left' = y_col_start
    /\ y_right' = y_col_start
    /\ pc' = "left"
    /\ UNCHANGED << word_pairs, num_questions, mode, idx, page_no, test_buf >>
    /\ UNCHANGED wrap_vars

\* the page loop ends: c.save(), return buf
Save ==
    /\ running /\ pc = "while"
    /\ ~(idx < total)
    /\ pc' = "done"
    /\ UNCHANGED << word_pairs, num_questions, mode, idx, page_no, y_left,
                    y_right, out, test_buf >>
    /\ UNCHANGED wrap_vars

PlaceLeft ==
    /\ running /\ pc = "left"
    /\ idx < total
    /\ LET it    == item_at(idx)
           lines == item_lines(it, "left")
           need  == needed_space(mode, it, lines)
       IN  /\ fits(y_left, need)
           /\ out' = out \o draw_item(mode, it, idx, "left", y_left, page_no, lines)
           /\ y_left' = y_left - need
    /\ idx' = idx + 1
    /\ UNCHANGED << word_pairs, num_questions, mode, pc, page_no, y_right, test_buf >>
    /\ UNCHANGED wrap_vars

\* mutant of BreakLeft: a full left column ends the page
BreakLeft_ends_page ==
    /\ running /\ pc = "left"
    /\ idx < total
    /\ LET it    == item_at(idx)
           lines == item_lines(it, "left")
       IN  ~fits(y_left, needed_space(mode, it, lines))
    /\ pc' = "footer"
    /\ UNCHANGED << word_pairs, num_questions, mode, idx, page_no, y_left,
                    y_right, out, test_buf >>
    /\ UNCHANGED wrap_vars

\* not enough space -> break to right column
BreakLeft ==
    /\ running /\ pc = "left"
    /\ idx < total
    /\ LET it    == item_at(idx)
           lines == item_lines(it, "left")
       IN  ~fits(y_left, needed_space(mode, it, lines))
    /\ pc' = "right"
    /\ UNCHANGED << word_pairs, num_questions, mode, idx, page_no, y_left,
                    y_right, out, test_buf >>
    /\ UNCHANGED wrap_vars

\* the left loop ends because no item is left
LeftExhausted ==
    /\ running /\ pc = "left"
    /\ ~(idx < total)
    /\ pc' = "right"
    /\ UNCHANGED << word_pairs, num_questions, mode, idx, page_no, y_left,
                    y_right, out, test_buf >>
    /\ UNCHANGED wrap_vars

\* mutant of PlaceRight: after an item in the right column the next item is
\* tried in the left column again
PlaceRight_back_to_left ==
    /\ running /\ pc = "right"
    /\ idx < total
    /\ LET it    == item_at(idx)
           lines == item_lines(it, "right")
           need  == needed_space(mode, it, lines)
       IN  /\ fits(y_right, need)
           /\ out' = out \o draw_item(mode, it, idx, "right", y_right, page_no, lines)
           /\ y_right' = y_right - need
    /\ idx' = idx + 1
    /\ pc' = "left"
    /\ UNCHANGED << word_pairs, num_questions, mode, page_no, y_left, test_buf >>
    /\ UNCHANGED wrap_vars

PlaceRight ==
    /\ running /\ pc = "right"
    /\ idx < total
    /\ LET it    == item_at(idx)
           lines == item_lines(it, "right")
           need  == needed_space(mode, it, lines)
       IN  /\ fits(y_right, need)
           /\ out' = out \o draw_item(mode, it, idx, "right", y_right, page_no, lines)
           /\ y_right' = y_right - need
    /\ idx' = idx + 1
    /\ UNCHANGED << word_pairs, num_questions, mode, pc, page_no, y_left, test_buf >>
    /\ UNCHANGED wrap_vars

\* mutant of BreakRight: the item that does not fit is given up
BreakRight_skips_item ==
    /\ running /\ pc = "right"
    /\ idx < total
    /\ LET it    == item_at(idx)
           lines == item_lines(it, "right")
       IN  ~fits(y_right, needed_space(mode, it, lines))
    /\ pc' = "footer"
    /\ idx' = idx + 1
    /\ UNCHANGED << word_pairs, num_questions, mode, page_no, y_left,
                    y_right, out, test_buf >>
    /\ UNCHANGED wrap_vars

\* not enough space for this right-column item on this page -> page full
BreakRight ==
    /\ running /\ pc = "right"
    /\ idx < total
    /\ LET it    == item_at(idx)
           lines == item_lines(it, "right")
       IN  ~fits(y_right, needed_space(mode, it, lines))
    /\ pc' = "footer"
    /\ UNCHANGED << word_pairs, num_questions, mode, idx, page_no, y_left,
                    y_right, out, test_buf >>
    /\ UNCHANGED wrap_vars

RightExhausted ==
    /\ running /\ pc = "right"
    /\ ~(idx < total)
    /\ pc' = "footer"
    /\ UNCHANGED << word_pairs, num_questions, mode, idx, page_no, y_left,
                    y_right, out, test_buf >>
    /\ UNCHANGED wrap_vars

\* footer of the page, then showPage and page_no += 1 when items are left
EndPage ==
    /\ running /\ pc = "footer"
    /\ idx < total => page_no < MaxPages
    /\ out' = out \o end_page(page_no, idx < total)
    /\ page_no' = IF idx < total THEN next_page_no(page_no) ELSE page_no
    /\ pc' = "while"
    /\ UNCHANGED << word_pairs, num_questions, mode, idx, y_left, y_right, test_buf >>
    /\ UNCHANGED wrap_vars

\* the caller: test_buf = create_test_pdf(...); answer_buf = create_answer_pdf(...)
CreateAnswer ==
    /\ mode = "test" /\ pc = "done"
    /\ test_buf' = [out |-> out, pages |-> page_no]
    /\ mode' = "answer"
    /\ pc' = "while"
    /\ idx' = 0
    /\ page_no' = 1
    /\ out' = << >>
    /\ UNCHANGED << word_pairs, num_questions, y_left, y_right >>
    /\ UNCHANGED wrap_vars

Next ==
    \/ PageLoop
    \/ Save
    \/ PlaceLeft
    \/ BreakLeft
    \/ LeftExhausted
    \/ PlaceRight
    \/ BreakRight
    \/ RightExhausted
    \/ EndPage
    \/ CreateAnswer

Spec == Init /\ [][Next]_vars

-----------------------------------------------------------------------------
(* Reading the commands of a pass *)

OfOp(o, op) == SelectSeq(o, LAMBDA c : c.op = op)

Footers == OfOp(out, "footer")

Numbers == OfOp(out, "number")

NumBreaks == Len(OfOp(out, "showPage"))

\* the positions in out of the commands that place item content on page p
ItemCmdsOnPage(p) ==
    {j \in DOMAIN out :
        out[j].op \in {"number", "text", "underline", "answer"} /\ out[j].page = p}

finished == running /\ pc = "done"

\* what the item at index i needs in column col
NeedOf(i, col) == needed_space(mode, item_at(i), item_lines(item_at(i), col))

-----------------------------------------------------------------------------
(* C1 *)

\* C1: in both passes every page's footer reads "Page n / total", n the page's
\* number and total the number of pages of the finished document.
C1_FooterHasTotal ==
    finished =>
        \A k \in DOMAIN Footers :
            Footers[k].text = << "Page ", Footers[k].page, " / ", page_no >>

-----------------------------------------------------------------------------
(* C2 *)

\* C2: in a pass over at least one item there is one page break less than
\* pages, one footer per page (the last page included) numbered 1, 2, ..., N in
\* this order, and the footer of a page comes after all items of the page and
\* right before the page break that ends the page.
C2_FootersAndBreaks ==
    running =>
        /\ NumBreaks = page_no - 1
        /\ \A k \in DOMAIN Footers : Footers[k].page = k
        /\ \A j \in DOMAIN out :
              out[j].op = "showPage" => j > 1 /\ out[j - 1].op = "footer"
        /\ \A j \in DOMAIN out :
              out[j].op = "footer" =>
                  /\ \A k \in ItemCmdsOnPage(out[j].page) : k < j
                  /\ j < Len(out) => out[j + 1].op = "showPage"
        /\ (pc = "done" /\ total >= 1) => Len(Footers) = page_no

C2_Witness ==
    /\ finished /\ total >= 3 /\ page_no >= 2
    /\ Len(Footers) = page_no

-----------------------------------------------------------------------------
(* C3 *)

\* C3: on the same word_pairs and num_questions the answer pass issues the
\* commands of the quiz pass, at the same positions and with the same page
\* breaks, plus its answer texts, and ends on the same page count.
C3_SamePlacement ==
    (mode = "answer" /\ pc = "done") =>
        /\ SelectSeq(out, LAMBDA c : c.op # "answer") = test_buf.out
        /\ page_no = test_buf.pages

C3_Witness ==
    /\ mode = "answer" /\ pc = "done"
    /\ page_no >= 2
    /\ \E k \in DOMAIN Numbers : Numbers[k].col = "right"
    /\ \E j \in DOMAIN out : out[j].op = "answer" /\ out[j].n >= 2

-----------------------------------------------------------------------------
(* C4 *)

\* C4: a finished pass has drawn exactly the items 0 .. total-1, each once and
\* in increasing order, item idx under the number idx + 1.
C4_EveryItemOnce ==
    finished =>
        /\ Len(Numbers) = total
        /\ \A k \in DOMAIN Numbers : Numbers[k].idx = k - 1 /\ Numbers[k].label = k

C4_Witness ==
    /\ finished /\ total >= 3 /\ page_no >= 2
    /\ total < Len(word_pairs)
    /\ \E k \in DOMAIN Numbers : Numbers[k].col = "right"

-----------------------------------------------------------------------------
(* C5 *)

\* C5: the page loop ends for every item sequence.  The head of the page loop
\* is determined by idx (the cursors are fresh there), so the loop ends exactly
\* if every page that is followed by another page has placed an item: a page
\* that places none comes back to the head with the same idx, for ever, which
\* is what an item higher than an empty column does.
C5_PageLoopEnds ==
    (running /\ pc = "footer" /\ idx < total) => ItemCmdsOnPage(page_no) # {}

-----------------------------------------------------------------------------
(* C6 *)

\* C6: with zero items a pass returns a document of one page that carries
\* exactly one footer.
C6_EmptyDocumentHasFooter ==
    (finished /\ total = 0) => page_no = 1 /\ Len(Footers) = 1

-----------------------------------------------------------------------------
(* C7 *)

\* C7: an item goes to the column its flag prefers (True: left, False: right)
\* unless that column's cursor is lower than the other one's, and then to the
\* column with more room.
C7_TypePreference ==
    [][ (running /\ idx' = idx + 1) =>
            LET it       == item_at(idx)
                placed   == IF y_left' # y_left THEN "left" ELSE "right"
                prefers  == IF it.is_kor_blank THEN "left" ELSE "right"
                y_pref   == IF prefers = "left" THEN y_left ELSE y_right
                y_other  == IF prefers = "left" THEN y_right ELSE y_left
                other    == IF prefers = "left" THEN "right" ELSE "left"
            IN  placed = (IF y_pref < y_other THEN other ELSE prefers) ]_vars

\* the left cursor of page p once its left column is closed
LeftCursorAfter(p) ==
    LET on == {k \in DOMAIN Numbers : Numbers[k].page = p /\ Numbers[k].col = "left"}
    IN  IF on = {} THEN y_col_start
        ELSE LET k == CHOOSE k \in on : \A h \in on : h <= k
             IN  Numbers[k].y - NeedOf(Numbers[k].idx, "left")

\* C7 (amended): the flag plays no part.  On every page the items go to the
\* left column as long as the next one fits there; the first item placed in the
\* right column of a page is one that did not fit under the items of the
\* left column (left cursor minus its required space is below the reserved
\* bottom), and no item after it goes to the left column of that page.
C7_LeftThenRight ==
    running =>
        \A k \in DOMAIN Numbers :
            LET c == Numbers[k]
            IN  /\ c.col = "left" =>
                      \A h \in DOMAIN Numbers :
                          (Numbers[h].page = c.page /\ Numbers[h].col = "right") => k < h
                /\ c.col = "right" =>
                      \/ \E h \in 1..(k - 1) :
                            Numbers[h].page = c.page /\ Numbers[h].col = "right"
                      \/ (LeftCursorAfter(c.page) - NeedOf(c.idx, "left")) < bottom_reserved

C7_Witness ==
    /\ finished
    /\ \E k \in DOMAIN Numbers :
          Numbers[k].col = "left" /\ ~item_at(Numbers[k].idx).is_kor_blank
    /\ \E k \in DOMAIN Numbers :
          Numbers[k].col = "right" /\ item_at(Numbers[k].idx).is_kor_blank

-----------------------------------------------------------------------------
(* C8, C9: wrap_text_by_width *)

RECURSIVE Concat(_)
Concat(ls) == IF ls = << >> THEN << >> ELSE Head(ls) \o Concat(Tail(ls))

NonSpace(s) == SelectSeq(s, LAMBDA ch : ~IsSpace(ch))

\* a is b with some elements left out
RECURSIVE IsSubseq(_, _)
IsSubseq(a, b) ==
    IF a = << >> THEN TRUE
    ELSE IF b = << >> THEN FALSE
    ELSE IF Head(a) = Head(b) THEN IsSubseq(Tail(a), Tail(b))
    ELSE IsSubseq(a, Tail(b))

WrappedNonBlank == wrapped.called /\ text # None /\ strip(text) # << >>

\* C8: for a non-blank text the lines, concatenated in order, are the text:
\* no character, spaces included, is dropped, added or duplicated.
C8_RoundTripExact ==
    WrappedNonBlank => Concat(wrapped.lines) = text

\* C8 (amended): for a non-blank text the lines, concatenated in order, are the
\* text with some whitespace left out (at wrap breaks, at the ends, in runs of
\* spaces): the characters that are not whitespace are all kept, once and in
\* order, and no character is added.
C8_RoundTripButSpaces ==
    WrappedNonBlank =>
        /\ NonSpace(Concat(wrapped.lines)) = NonSpace(text)
        /\ IsSubseq(Concat(wrapped.lines), text)

C8_Witness ==
    /\ WrappedNonBlank
    /\ Len(wrapped.lines) >= 2
    /\ \E j \in DOMAIN text : text[j] = " "
    /\ Concat(wrapped.lines) # text
    /\ NonSpace(text) # text
    /\ Len(NonSpace(text)) >= 2

EveryCharFits == \A i \in DOMAIN text : CharW(text[i]) <= max_width_pt

\* C9: if every single character of the text is at most max_width_pt wide, so
\* is every line returned.
C9_LinesFit ==
    (wrapped.called /\ text # None /\ EveryCharFits) =>
        \A k \in DOMAIN wrapped.lines : stringWidth(wrapped.lines[k]) <= max_width_pt

C9_Witness ==
    /\ wrapped.called /\ text # None /\ EveryCharFits
    /\ \E k \in DOMAIN split(text) : stringWidth(split(text)[k]) > max_width_pt
    /\ \E k \in DOMAIN split(text) :
          split(text)[k] # << >> /\ stringWidth(split(text)[k]) <= max_width_pt
    /\ Len(wrapped.lines) >= 3

-----------------------------------------------------------------------------
(* C10 *)

\* C10: the page count of the first n + 1 items is at least the page count of
\* the first n items, for every n (where both documents are produced); the
\* page count of a prefix is the page number a pass over it returns on.
C10_PageCountMonotone ==
    /\ finished => (page_count(total).ends /\ page_count(total).pages = page_no)
    /\ \A n \in 0..(Len(word_pairs) - 1) :
          (page_count(n).ends /\ page_count(n + 1).ends) =>
              page_count(n + 1).pages >= page_count(n).pages

C10_Witness ==
    /\ finished /\ total = Len(word_pairs) /\ total >= 3
    /\ \E n \in 1..(total - 1) :
          /\ page_count(n).ends /\ page_count(n + 1).ends
          /\ page_count(n + 1).pages > page_count(n).pages
    /\ page_no = page_count(total).pages

-----------------------------------------------------------------------------
(* C11 *)

\* the commands of out that belong to item i
CmdsOf(i, op) == {j \in DOMAIN out : out[j].op = op /\ out[j].idx = i}

\* the side that is not the question, wrapped to the underline's width
OtherSideWrapped ==
    [it \in KnownItems |->
        wrap_text_by_width(IF it.is_kor_blank THEN it.kor ELSE it.eng,
                           under_len - 2 * mm)]

\* C11: on the answer sheet the text drawn in the underline area of every item
\* is the side that is not shown as the question (flag True: eng shown, kor
\* answered; flag False: kor shown, eng answered), in both columns; the shown
\* side and the answer side are never the same field.
C11_AnswerIsOtherSide ==
    (running /\ mode = "answer") =>
        \A k \in DOMAIN Numbers :
            LET i  == Numbers[k].idx
                it == item_at(i)
            IN  /\ \A j \in CmdsOf(i, "text") :
                      out[j].field = (IF it.is_kor_blank THEN "eng" ELSE "kor")
                /\ Cardinality(CmdsOf(i, "answer")) = 1
                /\ \A j \in CmdsOf(i, "answer") :
                      /\ out[j].field = (IF it.is_kor_blank THEN "kor" ELSE "eng")
                      /\ out[j].col = Numbers[k].col
                      /\ out[j].n = Len(OtherSideWrapped[it])
                      /\ \A h \in CmdsOf(i, "text") : out[h].field # out[j].field

C11_Witness ==
    /\ mode = "answer" /\ pc = "done"
    /\ \E j \in DOMAIN out :
          out[j].op = "answer" /\ out[j].col = "left" /\ out[j].field = "kor"
    /\ \E j \in DOMAIN out :
          out[j].op = "answer" /\ out[j].col = "right" /\ out[j].field = "eng"
    /\ \E j \in DOMAIN out :
          out[j].op = "answer" /\ out[j].col = "left" /\ out[j].field = "eng"
    /\ \E j \in DOMAIN out :
          out[j].op = "answer" /\ out[j].col = "right" /\ out[j].field = "kor"

-----------------------------------------------------------------------------
(* C12 *)

Headers == OfOp(out, "header")

\* C12: in every run of a pass the header is drawn exactly once per document,
\* on page 1 and before any item of page 1, and never on a later page.
C12_HeaderOnce ==
    /\ running =>
          /\ Len(Headers) <= 1
          /\ \A j \in DOMAIN out :
                out[j].op = "header" =>
                    /\ out[j].page = 1
                    /\ \A h \in ItemCmdsOnPage(1) : j < h
    /\ finished => Len(Headers) = 1

-----------------------------------------------------------------------------
(* C13 *)

\* every item of the pass needs the same vertical space, in both columns
UniformNeed ==
    /\ total >= 1
    /\ \A i \in 0..(total - 1) :
          /\ NeedOf(i, "left") = NeedOf(0, "left")
          /\ NeedOf(i, "right") = NeedOf(0, "left")

\* the number of such items that fit in one column
ColumnCapacity == (y_col_start - bottom_reserved) \div NeedOf(0, "left")

\* C13: when every item needs the same space in both columns and k >= 1 of
\* them fit in a column, item i (counted from 1) is on page ceil(i / 2k), in
\* the left column if (i-1) mod 2k < k and in the right column otherwise,
\* whatever the flags of the items.
C13_UniformGrid ==
    (running /\ UniformNeed /\ ColumnCapacity >= 1) =>
        \A i \in DOMAIN Numbers :
            LET k == ColumnCapacity
            IN  /\ Numbers[i].label = i
                /\ Numbers[i].page = ((i - 1) \div (2 * k)) + 1
                /\ Numbers[i].col =
                      (IF ((i - 1) % (2 * k)) < k THEN "left" ELSE "right")

\* the case k = 2 with five items flagged shown, shown, hidden, hidden, shown
C13_Witness ==
    /\ finished /\ total = 5
    /\ UniformNeed /\ ColumnCapacity = 2
    /\ [i \in 1..5 |-> word_pairs[i].is_kor_blank] = << TRUE, TRUE, FALSE, FALSE, TRUE >>
    /\ [i \in 1..5 |-> Numbers[i].col] = << "left", "left", "right", "right", "left" >>
    /\ [i \in 1..5 |-> Numbers[i].page] = << 1, 1, 1, 1, 2 >>
    /\ NumBreaks = 1

-----------------------------------------------------------------------------
(* C14 *)

\* four items, all flagged True, of one height
FourShown ==
    /\ total = 4
    /\ \A i \in 0..3 : item_at(i).is_kor_blank
    /\ UniformNeed

AllSingleLine == \A i \in 0..(total - 1) : Len(item_lines(item_at(i), "left")) = 1

-----------------------------------------------------------------------------
(* C15 *)

\* C15: every placed item, whatever the number L >= 1 of wrapped lines of its
\* shown text in its column, has exactly one item number, exactly L text lines
\* and exactly one underline (not one per line), in both columns and passes.
C15_OneNumberOneUnderline ==
    running =>
        \A i \in 0..(idx - 1) :
            /\ Cardinality(CmdsOf(i, "number")) = 1
            /\ Cardinality(CmdsOf(i, "text")) = 1
            /\ Cardinality(CmdsOf(i, "underline")) = 1
            /\ \A j \in CmdsOf(i, "number") :
                  LET w == WrappedShown[item_at(i)][out[j].col]
                      L == IF w = << >> THEN 1 ELSE Len(w)
                  IN  /\ L >= 1
                      /\ \A h \in CmdsOf(i, "text") :
                            out[h].n = L /\ out[h].col = out[j].col /\ h = j + 1
                      /\ \A h \in CmdsOf(i, "underline") :
                            out[h].col = out[j].col /\ h = j + 2

C15_Witness ==
    /\ mode = "answer" /\ pc = "done"
    /\ \E j \in DOMAIN out :
          out[j].op = "text" /\ out[j].n >= 2 /\ out[j].col = "right"
    /\ \E j \in DOMAIN out :
          out[j].op = "text" /\ out[j].n >= 2 /\ out[j].col = "left"
    /\ \E j \in DOMAIN out : out[j].op = "text" /\ out[j].n = 1

-----------------------------------------------------------------------------
(* C16 *)

\* the current item does not fit under the cursor of the column being filled
NoFitLeft == running /\ pc = "left" /\ idx < total /\ ~fits(y_left, NeedOf(idx, "left"))

NoFitRight == running /\ pc = "right" /\ idx < total /\ ~fits(y_right, NeedOf(idx, "right"))

\* the step that ends a page with items left: c.showPage(); page_no += 1
PageBreakStep == running /\ pc = "footer" /\ idx < total /\ pc' = "while"

\* C16: a page break happens exactly when the current item does not fit in the
\* column it is tried in: the pass then goes to the end of the page, the page
\* number goes up by 1, both cursors are reset to page height minus top
\* offset, idx is not advanced and the same item is the first one placed on
\* the fresh page.
C16_BreakWhenTargetFull ==
    [][ /\ (NoFitLeft \/ NoFitRight) => (pc' = "footer" /\ idx' = idx)
        /\ PageBreakStep => (page_no' = page_no + 1 /\ idx' = idx)
        /\ (running /\ page_no' # page_no /\ mode' = mode) => PageBreakStep
        /\ (running /\ pc = "while" /\ pc' = "left") =>
              (y_left' = y_col_start /\ y_right' = y_col_start)
        /\ (running /\ pc \in {"footer", "while"} /\ mode' = mode) =>
              (idx' = idx /\ OfOp(out', "number") = Numbers)
      ]_vars

\* C16 (amended): an item that does not fit in the left column closes the left
\* column of the page and is tried in the right column; a page break happens
\* exactly when the current item does not fit in the right column.  At the
\* page break the page number goes up by 1 and idx is not advanced; the fresh
\* page starts with both cursors at page height minus top offset, and from the
\* end of the column loops to the first placement on the fresh page no item is
\* placed and idx stays, so that no other item is placed there before that
\* same item.
C16_BreakWhenRightFull ==
    [][ /\ NoFitLeft => (pc' = "right" /\ idx' = idx /\ page_no' = page_no)
        /\ NoFitRight => (pc' = "footer" /\ idx' = idx)
        /\ PageBreakStep =>
              /\ page_no' = page_no + 1 /\ idx' = idx
              /\ ~fits(y_right, NeedOf(idx, "right"))
        /\ (running /\ page_no' # page_no /\ mode' = mode) => PageBreakStep
        /\ (running /\ pc = "while" /\ pc' = "left") =>
              (y_left' = y_col_start /\ y_right' = y_col_start)
        /\ (running /\ pc \in {"footer", "while"} /\ mode' = mode) =>
              (idx' = idx /\ OfOp(out', "number") = Numbers)
      ]_vars

\* a page break before an item that fitted the left column's rest, and the item
\* is the first one on the next page
C16_Witness ==
    /\ finished /\ page_no >= 2
    /\ \E k \in DOMAIN Numbers :
          /\ k >= 2
          /\ Numbers[k].page = Numbers[k - 1].page + 1
          /\ Numbers[k].col = "left" /\ Numbers[k].y = y_col_start
          /\ Numbers[k - 1].col = "right"
          /\ fits(LeftCursorAfter(Numbers[k - 1].page), NeedOf(Numbers[k].idx, "left"))

-----------------------------------------------------------------------------
(* C17 *)

\* the column of the item number that the step has added to out
PlacedCol == out'[Len(out) + 1].col

\* C17: placing an item lowers only the cursor of the column it is placed in,
\* by (number of wrapped lines at that column's text width) x per-line height
\* + the gap after the item; the other cursor and the page number stay, and idx
\* goes up by exactly 1 (and by nothing but a placement).
C17_PlaceFrame ==
    [][ /\ (running /\ mode' = mode /\ idx' # idx) => OfOp(out', "number") # Numbers
        /\ (running /\ mode' = mode /\ OfOp(out', "number") # Numbers) =>
            LET it    == item_at(idx)
                w     == WrappedShown[it][PlacedCol]
                L     == IF w = << >> THEN 1 ELSE Len(w)
                gap   == IF it.is_kor_blank THEN LINE_HEIGHT_EN_MM * mm
                                            ELSE LINE_HEIGHT_KO_GAP_MM * mm
                drop  == L * ((CHAR_SIZE_MM * mm * 11) \div 10) + gap
            IN  /\ out'[Len(out) + 1].op = "number"
                /\ out'[Len(out) + 1].idx = idx
                /\ idx' = idx + 1
                /\ page_no' = page_no
                /\ PlacedCol = "left" => (y_left' = y_left - drop /\ y_right' = y_right)
                /\ PlacedCol = "right" => (y_right' = y_right - drop /\ y_left' = y_left)
      ]_vars

C17_Witness ==
    /\ finished
    /\ \E k \in DOMAIN Numbers :
          /\ Numbers[k].col = "right"
          /\ WrappedShown[item_at(Numbers[k].idx)]["right"] #
                 WrappedShown[item_at(Numbers[k].idx)]["left"]
    /\ \E k \in DOMAIN Numbers :
          Numbers[k].col = "left" /\ ~item_at(Numbers[k].idx).is_kor_blank
    /\ \E k \in DOMAIN Numbers :
          Numbers[k].col = "left" /\ item_at(Numbers[k].idx).is_kor_blank

-----------------------------------------------------------------------------
(* C18 *)

\* the shown text of the item is empty or whitespace only
BlankShown(it) == strip(shown_text(it)) = << >>

\* C18: an item whose shown text is empty or whitespace only (the wrap returns
\* no lines) is laid out as one blank line: it gets its number, one text line
\* and its underline, its column's cursor goes down by one per-line height plus
\* the gap, and idx advances.
C18_BlankIsOneLine ==
    [][ (running /\ mode' = mode /\ idx < total /\ BlankShown(item_at(idx))
             /\ pc \in {"left", "right"} /\ pc' = pc) =>
            LET it == item_at(idx)
                y  == IF pc = "left" THEN y_left ELSE y_right
                j  == Len(out)
            IN  /\ wrap_text_by_width(shown_text(it), text_max_w(pc)) = << >>
                /\ Len(out') >= j + 3
                /\ out'[j + 1].op = "number" /\ out'[j + 1].label = idx + 1
                /\ out'[j + 2].op = "text" /\ out'[j + 2].n = 1
                /\ out'[j + 3].op = "underline"
                /\ (IF pc = "left" THEN y_left' ELSE y_right')
                       = y - (per_line_h + gap_after(it))
                /\ idx' = idx + 1
      ]_vars

C18_Witness ==
    /\ finished
    /\ \E k \in DOMAIN Numbers : shown_text(item_at(Numbers[k].idx)) = << >>
    /\ \E k \in DOMAIN Numbers :
          /\ k < Len(Numbers)
          /\ BlankShown(item_at(Numbers[k].idx))
          /\ shown_text(item_at(Numbers[k].idx)) # << >>
          /\ Numbers[k + 1].col = Numbers[k].col
          /\ Numbers[k + 1].y = Numbers[k].y - (per_line_h + ko_gap)

-----------------------------------------------------------------------------
(* C19 *)

\* C19: in every state of a pass both cursors are between bottom_reserved and
\* page height minus top offset, and the block of every placed item (from its
\* start y down to y minus its required space) is at or above bottom_reserved:
\* no item block enters the footer band.
C19_CursorsInBand ==
    running =>
        /\ bottom_reserved <= y_left /\ y_left <= page_h_pt - top_offset
        /\ bottom_reserved <= y_right /\ y_right <= page_h_pt - top_offset
        /\ \A k \in DOMAIN Numbers :
              LET c    == Numbers[k]
                  w    == WrappedShown[item_at(c.idx)][c.col]
                  need == (IF w = << >> THEN 1 ELSE Len(w)) * per_line_h
                              + gap_after(item_at(c.idx))
              IN  /\ c.y <= page_h_pt - top_offset
                  /\ c.y - need >= bottom_reserved

\* both columns of a page filled to where not even a one-line item fits
C19_Witness ==
    /\ running /\ pc = "footer" /\ idx < total
    /\ y_left < bottom_reserved + per_line_h + ko_gap
    /\ y_right < bottom_reserved + per_line_h + ko_gap
    /\ y_left < y_col_start /\ y_right < y_col_start
    /\ \E k \in DOMAIN Numbers : Numbers[k].page = page_no /\ Numbers[k].y < y_col_start

-----------------------------------------------------------------------------
(* C20 *)

\* C20: on the answer sheet the answer lines of an item stay inside the space
\* reserved for the item: there are no more answer lines than lines the block
\* was sized for, and no answer line is drawn at or below the y where the next
\* item of the column starts, nor below bottom_reserved.
C20_AnswerWithinBlock ==
    (running /\ mode = "answer") =>
        \A j \in DOMAIN out :
            out[j].op = "answer" =>
                LET sized == Len(item_lines(item_at(out[j].idx), out[j].col))
                    last  == out[j].y - (out[j].n - 1) * per_line_h
                IN  /\ out[j].n <= sized
                    /\ out[j].n >= 1 =>
                          /\ last > out[j].y - NeedOf(out[j].idx, out[j].col)
                          /\ last >= bottom_reserved

-----------------------------------------------------------------------------
(* C21 *)

\* the item numbers a step adds to out
NewNumbers == SubSeq(OfOp(out', "number"), Len(Numbers) + 1, Len(OfOp(out', "number")))

\* C21: on every page the left column is filled before the right column.  The
\* left column of a page is closed when an item has not fitted in it (or no
\* item is left); from then to the end of the page no item is placed in the
\* left column and the left cursor stays, even where a later item would fit,
\* and items are placed in the right column only once the left one is closed.
\* So on each page every left-column item has a smaller index than every
\* right-column item.
C21_LeftClosedForPage ==
    [][ (running /\ mode' = mode) =>
            /\ (pc = "left" /\ pc' # "left") =>
                  /\ pc' = "right" /\ page_no' = page_no
                  /\ (idx < total) => ~fits(y_left, NeedOf(idx, "left"))
            /\ (pc \in {"right", "footer"}) =>
                  /\ y_left' = y_left
                  /\ pc' # "left"
                  /\ \A k \in DOMAIN NewNumbers :
                        NewNumbers[k].col = "right" /\ NewNumbers[k].page = page_no
            /\ (pc \notin {"right"}) =>
                  \A k \in DOMAIN NewNumbers : NewNumbers[k].col = "left"
            /\ \A h \in DOMAIN OfOp(out', "number") :
                  \A k \in DOMAIN OfOp(out', "number") :
                      LET a == OfOp(out', "number")[h]
                          b == OfOp(out', "number")[k]
                      IN  (a.page = b.page /\ a.col = "left" /\ b.col = "right")
                              => a.idx < b.idx
      ]_vars

\* an item went to the right column of a page whose left column still had the
\* room for it
C21_Witness ==
    /\ finished
    /\ \E k \in DOMAIN Numbers :
          /\ Numbers[k].col = "right"
          /\ fits(LeftCursorAfter(Numbers[k].page), NeedOf(Numbers[k].idx, "left"))
          /\ \E h \in DOMAIN Numbers :
                Numbers[h].page = Numbers[k].page /\ Numbers[h].col = "left"

-----------------------------------------------------------------------------
(* C22 *)

\* every item of the pass fits in an empty left column
AllFitEmptyLeft ==
    \A i \in 0..(total - 1) :
        (page_h_pt - top_offset) - NeedOf(i, "left") >= bottom_reserved

\* the pages of the document so far that are complete: all but the current
\* one, and the current one too once the pass has returned
PagesDone == IF pc = "done" THEN 1..page_no ELSE 1..(page_no - 1)

\* the first item number drawn on page p is in the left column, at the top
FirstOnPageIsLeft(p) ==
    \A k \in DOMAIN Numbers :
        (Numbers[k].page = p /\ (k = 1 \/ Numbers[k - 1].page # p)) =>
            (Numbers[k].col = "left" /\ Numbers[k].y = page_h_pt - top_offset)

\* C22: if every item fits in an empty left column, every page of the document
\* holds at least one item, the first item of each page is in the left column
\* and the final page count is at most the number of items.
C22_NoEmptyPage ==
    (running /\ AllFitEmptyLeft) =>
        /\ \A p \in PagesDone :
              /\ \E k \in DOMAIN Numbers : Numbers[k].page = p
              /\ FirstOnPageIsLeft(p)
        /\ finished => page_no <= total

\* C22 (amended): the same for a pass over at least one item; with no item the
\* document is one page without items.
C22_NoEmptyPageWithItems ==
    (running /\ AllFitEmptyLeft) =>
        /\ total >= 1 =>
              /\ \A p \in PagesDone :
                    /\ \E k \in DOMAIN Numbers : Numbers[k].page = p
                    /\ FirstOnPageIsLeft(p)
              /\ \A p \in 1..page_no : FirstOnPageIsLeft(p)
              /\ finished => page_no <= total
        /\ (total = 0 /\ finished) => (page_no = 1 /\ Numbers = << >>)

C22_Witness ==
    /\ finished /\ AllFitEmptyLeft
    /\ total >= 3 /\ page_no >= 2
    /\ \E i \in 0..(total - 1) : ~fits(y_col_start, NeedOf(i, "left") * 2)
    /\ \E k \in DOMAIN Numbers :
          Numbers[k].page = page_no /\ Numbers[k].col = "left" /\ Numbers[k].y = y_col_start

====
